---- MODULE Spec2Model ----
(***************************************************************************)
(* The conversation history model of WrapGPT (src/ams/ai.py: Message,      *)
(* Response, ChatEntry, Chat) and the submission pipeline that drives it   *)
(* (src/ams/gpt_window.py: GPTWindow, ResultThread).                       *)
(*                                                                         *)
(* Entries are Python objects compared by identity; the model names them   *)
(* by allocation order.  Entry 0 is the root sentinel made by              *)
(* Chat.__init__, entries 1..n are the ChatEntry objects made since the    *)
(* last clear().  clear() drops every reference to the older entries       *)
(* (root.children, current, previous, cursor and the cached paths are all  *)
(* reassigned), so the model forgets them.                                 *)
(*                                                                         *)
(* Python list positions are 0-based and are kept 0-based in               *)
(* _cursorSiblingIndex; TLA+ sequences are 1-based, hence the +1 at every  *)
(* subscript.                                                              *)
(*                                                                         *)
(* The parsers of API payloads (Message, PartialMessage, Usage, Response   *)
(* .FromApiResponse and .FromApiResponses, Response.toApiResponse) and     *)
(* ChatCompletionParams have state of their own (api, chain, params) and   *)
(* their own specifications, SpecParse and SpecParams.                     *)
(***************************************************************************)
EXTENDS Integers, Sequences, FiniteSets, TLC

\* Largest number of ChatEntry objects (besides the root) alive at once.
MaxEntries == 4

\* Python's None, as the value of ChatEntry._parent and Chat._previous.
None == -1

\* The entry Chat.__init__ stores in Chat._root.
Root == 0

Entries == 0..MaxEntries

----------------------------------------------------------------------------
(* Message and Response values.  Message.id and Message.created keep their *)
(* defaults (DEFAULT_ID, DEFAULT_TIME) in every Message the Chat and the   *)
(* window build, so a Message is its role and content.  Of a Response the  *)
(* model keeps the choices and the id; created, model, object_ and usage   *)
(* are default exactly when the id is.                                     *)

Message(role, content) == [role |-> role, content |-> content]

MessageDefault == Message("", "")

MessageIsDefault(m) == m.role = "" /\ m.content = ""

Response(choices, id) == [choices |-> choices, id |-> id]

ResponseDefault == Response(<< >>, "")

ResponseIsDefault(r) == r.choices = << >> /\ r.id = ""

\* The prompts and responses the operations are called with.
Prompts == {Message("user", "hi")}

Responses == {ResponseDefault, Response(<<Message("assistant", "hello")>>, "r")}

----------------------------------------------------------------------------
(* Python list access.                                                     *)

\* seq[i] is defined for -len <= i < len; anything else is an IndexError.
PyInRange(seq, i) == i >= 0 - Len(seq) /\ i < Len(seq)

PyGet(seq, i) == IF i >= 0 THEN seq[i + 1] ELSE seq[Len(seq) + i + 1]

\* list.index(x): the 0-based position of the first element equal to x.
PyIndex(seq, x) == (CHOOSE i \in 1..Len(seq) : seq[i] = x /\ \A j \in 1..(i - 1) : seq[j] # x) - 1

Contains(seq, x) == \E i \in 1..Len(seq) : seq[i] = x

----------------------------------------------------------------------------
(* ChatEntry.  A chat state c is a record; c.parent, c.children, c.prompt  *)
(* and c.response are the fields of the entries, indexed by entry.         *)

\* path() that leaves the root sentinel out.
RECURSIVE EntryPathNoRoot(_, _)
EntryPathNoRoot(c, e) ==
  IF e = None THEN << >>
  ELSE IF c.parent[e] = None THEN << >>
  ELSE Append(EntryPathNoRoot(c, c.parent[e]), e)

RECURSIVE EntryPath(_, _)
EntryPath(c, e) == IF e = None THEN << >> ELSE Append(EntryPath(c, c.parent[e]), e)

EntryIndex(c, e) == IF c.parent[e] = None THEN 0 ELSE PyIndex(c.children[c.parent[e]], e)

IsLeaf(c, e) == Len(c.children[e]) = 0

IsDefaultContent(c, e) == MessageIsDefault(c.prompt[e]) /\ ResponseIsDefault(c.response[e])

\* ChatEntry(...) that puts the new entry first among the children.
NewEntryFirst(c, prompt, response, par) ==
  LET e == c.n + 1 IN
  [c EXCEPT !.n = e,
            !.parent[e] = par,
            !.children = [x \in Entries |->
                            IF x = e THEN << >>
                            ELSE IF x = par THEN <<e>> \o c.children[x]
                            ELSE c.children[x]],
            !.prompt[e] = prompt,
            !.response[e] = response]

\* ChatEntry(prompt, response, parent): the next entry, appended to the
\* children of its parent when it has one.
NewEntry(c, prompt, response, par) ==
  LET e == c.n + 1 IN
  [c EXCEPT !.n = e,
            !.parent[e] = par,
            !.children = [x \in Entries |->
                            IF x = e THEN << >>
                            ELSE IF x = par THEN Append(c.children[x], e)
                            ELSE c.children[x]],
            !.prompt[e] = prompt,
            !.response[e] = response]

----------------------------------------------------------------------------
(* Chat.  The fields of c: current, previous, cursor, _path, _cursorPath,  *)
(* _cursorSiblingIndex; c.err is the exception the last call raised        *)
(* ("" when it returned).                                                  *)

Returned(c) == [c EXCEPT !.err = ""]

Raise(c, e) == [c EXCEPT !.err = e]

UpdateCursorAttrs(c) ==
  [c EXCEPT !.cursorPath = EntryPath(c, c.cursor),
            !.cursorSiblingIndex = EntryIndex(c, c.cursor)]

\* The state Chat.__init__ leaves before it calls clear(): a lone root.
Blank ==
  [n |-> 0,
   parent |-> [e \in Entries |-> None],
   children |-> [e \in Entries |-> << >>],
   prompt |-> [e \in Entries |-> MessageDefault],
   response |-> [e \in Entries |-> ResponseDefault],
   current |-> None, previous |-> None, cursor |-> None,
   path |-> << >>, cursorPath |-> << >>, cursorSiblingIndex |-> 0,
   err |-> ""]

\* Clear that leaves _cursorSiblingIndex as it was.
ClearKeepsSiblingIndex(c) ==
  LET c1 == NewEntry(Blank, MessageDefault, ResponseDefault, Root)
      c2 == [c1 EXCEPT !.current = c1.n, !.previous = None]
      c3 == [c2 EXCEPT !.path = EntryPath(c2, c2.current)]
      c4 == [c3 EXCEPT !.cursor = c3.current, !.cursorSiblingIndex = c.cursorSiblingIndex]
  IN  [c4 EXCEPT !.cursorPath = EntryPath(c4, c4.cursor)]

Clear(c) ==
  LET c1 == NewEntry(Blank, MessageDefault, ResponseDefault, Root)
      c2 == [c1 EXCEPT !.current = c1.n, !.previous = None]
      c3 == [c2 EXCEPT !.path = EntryPath(c2, c2.current)]
      c4 == [c3 EXCEPT !.cursor = c3.current, !.cursorSiblingIndex = 0]
  IN  [c4 EXCEPT !.cursorPath = EntryPath(c4, c4.cursor)]

IsDefault(c) ==
  /\ c.parent[c.current] = Root
  /\ Len(c.children[c.current]) = 0
  /\ Len(c.children[Root]) = 1
  /\ MessageIsDefault(c.prompt[c.current])
  /\ ResponseIsDefault(c.response[c.current])

IsEditable(c) == c.cursor = c.current

AddSibling(c, prompt, response) ==
  LET c1 == [c EXCEPT !.previous = c.current,
                      !.prompt[c.current].content = "",
                      !.response[c.current].choices = << >>]
      c2 == NewEntry(c1, prompt, response, c1.parent[c1.cursor])
      c3 == [c2 EXCEPT !.current = c2.n]
      c4 == [c3 EXCEPT !.path = EntryPath(c3, c3.current)]
      c5 == [c4 EXCEPT !.cursor = c4.current]
  IN  Returned(UpdateCursorAttrs(c5))

\* AddDescendant that leaves _current on the entry it was on.
AddDescendantKeepsCurrent(c, prompt, response) ==
  LET c1 == [c EXCEPT !.previous = c.current]
      c2 == NewEntry(c1, prompt, response, c1.cursor)
      c4 == [c2 EXCEPT !.path = EntryPath(c2, c2.current)]
  IN  Returned(UpdateCursorAttrs(c4))

\* AddDescendant with the new entry hung under current instead of the cursor.
AddDescendantUnderCurrent(c, prompt, response) ==
  LET c1 == [c EXCEPT !.previous = c.current]
      c2 == NewEntry(c1, prompt, response, c1.current)
      c3 == [c2 EXCEPT !.current = c2.n]
      c4 == [c3 EXCEPT !.path = EntryPath(c3, c3.current)]
      c5 == [c4 EXCEPT !.cursor = c4.current]
  IN  Returned(UpdateCursorAttrs(c5))

AddDescendant(c, prompt, response) ==
  LET c1 == [c EXCEPT !.previous = c.current]
      c2 == NewEntry(c1, prompt, response, c1.cursor)
      c3 == [c2 EXCEPT !.current = c2.n]
      c4 == [c3 EXCEPT !.path = EntryPath(c3, c3.current)]
      c5 == [c4 EXCEPT !.cursor = c4.current]
  IN  Returned(UpdateCursorAttrs(c5))

CanMoveUp(c) == ~(c.parent[c.cursor] = None \/ c.parent[c.cursor] = Root)

CanMoveDown(c) == Len(c.children[c.cursor]) # 0

CanMoveLeft(c) == c.cursorSiblingIndex # 0

CanMoveRight(c) ==
  IF c.parent[c.cursor] = None THEN FALSE
  ELSE c.cursorSiblingIndex # Len(c.children[c.parent[c.cursor]]) - 1

\* up() that also makes the entry it moves to the current entry.
UpMovesCurrent(c) ==
  IF c.parent[c.cursor] = None THEN Returned(c)
  ELSE IF c.parent[c.cursor] = Root THEN Returned(c)
  ELSE Returned(UpdateCursorAttrs([c EXCEPT !.cursor = c.parent[c.cursor],
                                            !.previous = c.current,
                                            !.current = c.parent[c.cursor]]))

Up(c) ==
  IF c.parent[c.cursor] = None THEN Returned(c)
  ELSE IF c.parent[c.cursor] = Root THEN Returned(c)
  ELSE Returned(UpdateCursorAttrs([c EXCEPT !.cursor = c.parent[c.cursor]]))

\* down() follows _path when the cursor is on it and has several children.
DownFollowsPath(c) == Contains(c.path, c.cursor) /\ Len(c.children[c.cursor]) > 1

\* DownIdx simplified to "always the last child".
DownIdxLastChild(c) == 0 - 1

\* The index down() picks: -1 (the last child) unless it follows _path.
DownIdx(c) ==
  IF DownFollowsPath(c)
  THEN EntryIndex(c, PyGet(c.path, PyIndex(c.path, c.cursor) + 1))
  ELSE 0 - 1

Down(c) ==
  IF Len(c.children[c.cursor]) = 0 THEN Returned(c)
  ELSE IF DownFollowsPath(c) /\ ~PyInRange(c.path, PyIndex(c.path, c.cursor) + 1)
       THEN Raise(c, "IndexError")
  ELSE IF ~PyInRange(c.children[c.cursor], DownIdx(c)) THEN Raise(c, "IndexError")
  ELSE Returned(UpdateCursorAttrs([c EXCEPT !.cursor = PyGet(c.children[c.cursor], DownIdx(c))]))

Left(c) ==
  IF c.cursorSiblingIndex = 0 THEN Returned(c)
  ELSE IF c.parent[c.cursor] = None THEN Raise(c, "AttributeError")
  ELSE LET sibs == c.children[c.parent[c.cursor]] IN
       IF ~PyInRange(sibs, c.cursorSiblingIndex - 1) THEN Raise(c, "IndexError")
       ELSE Returned(UpdateCursorAttrs([c EXCEPT !.cursor = PyGet(sibs, c.cursorSiblingIndex - 1)]))

Right(c) ==
  IF c.parent[c.cursor] = None THEN Returned(c)
  ELSE LET sibs == c.children[c.parent[c.cursor]] IN
       IF c.cursorSiblingIndex = Len(sibs) - 1 THEN Returned(c)
       ELSE IF ~PyInRange(sibs, c.cursorSiblingIndex + 1) THEN Raise(c, "IndexError")
       ELSE Returned(UpdateCursorAttrs([c EXCEPT !.cursor = PyGet(sibs, c.cursorSiblingIndex + 1)]))

Top(c) ==
  IF c.parent[c.cursor] = None \/ c.parent[c.cursor] = Root THEN Returned(c)
  ELSE Returned(UpdateCursorAttrs([c EXCEPT !.cursor = PyGet(c.path, 0)]))

Bottom(c) ==
  IF Len(c.children[c.cursor]) = 0 THEN Returned(c)
  ELSE Returned(UpdateCursorAttrs([c EXCEPT !.cursor = c.current]))

ReturnToCurrent(c) == Returned([c EXCEPT !.cursor = c.current])

----------------------------------------------------------------------------
(* ChatEntry.messages().                                                   *)

\* The messages of the entries path[i..], as messages() collects them.
RECURSIVE MessagesFrom(_, _, _)
MessagesFrom(c, path, i) ==
  IF i > Len(path) THEN << >>
  ELSE LET entry == path[i]
           own == IF i = 1 /\ IsDefaultContent(c, entry) THEN << >>
                  ELSE IF Len(c.response[entry].choices) > 0
                       THEN <<c.prompt[entry], c.response[entry].choices[1]>>
                       ELSE <<c.prompt[entry]>>
       IN  own \o MessagesFrom(c, path, i + 1)

EntryMessages(c, e) == MessagesFrom(c, EntryPath(c, e), 1)

----------------------------------------------------------------------------
(* GPTWindow and ResultThread.  The window state g is a record:            *)
(*   promptField    the text of the prompt field                           *)
(*   blocked        blockSignals(True) is in force on the fields           *)
(*   loading        the loading indicator is shown                         *)
(*   thread         the call self._thread runs, None before any submit     *)
(*   timer          self._timer: "absent", "active" or "inactive"; the     *)
(*                  QTimer a submit replaces is destroyed and never fires  *)
(*   calls          the ResultThread objects whose result is not handled   *)
(*                  yet; a replaced thread object stays alive while its    *)
(*                  run() executes                                         *)
(* A call k is "running" (the thread is started and is inside task or      *)
(* streamTask) or "emitted" (run() has emitted eFinished; the connection   *)
(* to afterTask is queued to the window thread).  Its slot is "unused"     *)
(* again once afterTask has run, the call has raised inside run() (nothing *)
(* is emitted) or QThread.terminate() has killed the thread.               *)
(* calls[k].stopped records that the user pressed Stop while k was         *)
(* self._thread; calls[k].entry is the entry that was current when k was   *)
(* submitted: completionParams.messages is its messages(), a list of the   *)
(* Message objects on its path; calls[k].got counts the chunks with content that          *)
(* streamTask of k has read and inserted into the response field.          *)
(*   responseField  the text of the response field, as the sequence of the *)
(*                  pieces put into it: call is the call whose streamTask  *)
(*                  inserted the piece, 0 for a text that setText placed   *)
(* The model menu and the navigation buttons are display only and are left *)
(* out.                                                                    *)

\* Largest number of ChatEntry objects (besides the root) alive at once in a
\* run of the window.
MaxWindowEntries == 3

\* Largest number of ResultThread objects with an unhandled result.
MaxCalls == 2

Calls == 1..MaxCalls

\* What the user can type into the prompt field, and the roles of the menu.
PromptTexts == {"hi"}

Roles == {"user"}

\* What the completion call can return: a reply that parses, or one that
\* Response.FromApiResponse and Response.FromApiResponses reject.
Results == {"ok", "bad"}

\* The chunks with content of a reply that is streamed in full, and the
\* content Response.FromApiResponses builds of them.
StreamChunks == <<"hel", "lo">>

StreamContent == "hello"

\* An entry of the tree that a clear() has dropped since.
Dropped == -2

NoCall == [st |-> "unused", stopped |-> FALSE, got |-> 0, entry |-> None]

\* GPTWindow.__init__: _fieldsFromChatEntry(current) on the default entry
\* returns before it unblocks the signals.
WindowInit ==
  [promptField |-> "", responseField |-> << >>, blocked |-> TRUE, loading |-> FALSE,
   thread |-> None, timer |-> "absent",
   calls |-> [k \in Calls |-> NoCall]]

FreeCalls(g) == {k \in Calls : g.calls[k].st = "unused"}

Unhandled(g) == {k \in Calls : g.calls[k].st # "unused"}

\* The calls that are inside openai.ChatCompletion.create.
InFlight(g) == {k \in Calls : g.calls[k].st = "running"}

\* The Response built from a payload that parses.
ParsedResponse == Response(<<Message("assistant", StreamContent)>>, "r")

\* QThread.terminate() on self._thread: kills a thread that is still in run().
Terminate(g) ==
  IF g.thread # None /\ g.thread \in InFlight(g)
  THEN [g EXCEPT !.calls[g.thread] = NoCall]
  ELSE g

FieldsFromChatEntry(c, g, e) ==
  IF Len(c.response[e].choices) = 0
  THEN [g EXCEPT !.blocked = TRUE, !.promptField = c.prompt[e].content]
  ELSE [g EXCEPT !.blocked = FALSE, !.promptField = c.prompt[e].content,
                 !.responseField = <<[call |-> 0, text |-> c.response[e].choices[1].content]>>]

\* A submit that writes the message into the entry on view.
SubmitChatEditsViewed(c, message) ==
  [c EXCEPT !.prompt[c.cursor].role = message.role,
            !.prompt[c.cursor].content = message.content]

\* The chat after _onSubmitButton and _submitPrompt have placed the message.
SubmitChat(c, message) ==
  LET c1 == IF c.cursor # c.current THEN AddSibling(c, message, ResponseDefault) ELSE c
  IN  IF IsEditable(c1)
      THEN [c1 EXCEPT !.prompt[c1.current].role = message.role,
                      !.prompt[c1.current].content = message.content]
      ELSE AddSibling(c1, message, ResponseDefault)

\* The window after _submitPrompt has started thread and timer; c is the
\* chat with the message placed.
SubmitGui(g, c) ==
  LET k == CHOOSE x \in FreeCalls(g) : \A y \in FreeCalls(g) : x <= y IN
  [g EXCEPT !.loading = TRUE, !.responseField = << >>, !.timer = "active", !.thread = k,
            !.calls[k] = [NoCall EXCEPT !.st = "running", !.entry = c.current]]

\* _onResponseCompleted on a payload that parses.
ResponseCompleted(c) ==
  LET c1 == [c EXCEPT !.response[c.current] = ParsedResponse] IN
  IF IsDefaultContent(c1, c1.current) THEN c1
  ELSE AddDescendant(c1, Message("user", ""), ResponseDefault)

----------------------------------------------------------------------------
(* The Chat object driven by an arbitrary caller.  op is the operation     *)
(* called last.                                                            *)

VARIABLES chat, op, gui, dialog

\* The value objects exercised on their own: nCalls counts the calls made on
\* the Chat of a scenario, api is a payload being parsed, chain a stream of
\* chunks being folded, params a ChatCompletionParams object.
VARIABLES nCalls, api, chain, params

valueVars == <<nCalls, api, chain, params>>

vars == <<chat, op, gui, dialog, nCalls, api, chain, params>>

\* No value object is under exercise.
NoValues == nCalls = 0 /\ api = << >> /\ chain = << >> /\ params = << >>

Init == chat = Clear(Blank) /\ op = "__init__" /\ gui = WindowInit /\ dialog = "" /\ NoValues

clear == chat' = Clear(chat) /\ op' = "clear" /\ UNCHANGED <<gui, dialog, valueVars>>

addSibling ==
  /\ chat.n < MaxEntries
  /\ \E p \in Prompts, r \in Responses : chat' = AddSibling(chat, p, r)
  /\ op' = "addSibling"
  /\ UNCHANGED <<gui, dialog, valueVars>>

addDescendant ==
  /\ chat.n < MaxEntries
  /\ \E p \in Prompts, r \in Responses : chat' = AddDescendant(chat, p, r)
  /\ op' = "addDescendant"
  /\ UNCHANGED <<gui, dialog, valueVars>>

up == chat' = Up(chat) /\ op' = "up" /\ UNCHANGED <<gui, dialog, valueVars>>

down == chat' = Down(chat) /\ op' = "down" /\ UNCHANGED <<gui, dialog, valueVars>>

left == chat' = Left(chat) /\ op' = "left" /\ UNCHANGED <<gui, dialog, valueVars>>

right == chat' = Right(chat) /\ op' = "right" /\ UNCHANGED <<gui, dialog, valueVars>>

top == chat' = Top(chat) /\ op' = "top" /\ UNCHANGED <<gui, dialog, valueVars>>

bottom == chat' = Bottom(chat) /\ op' = "bottom" /\ UNCHANGED <<gui, dialog, valueVars>>

returnToCurrent == chat' = ReturnToCurrent(chat) /\ op' = "returnToCurrent" /\ UNCHANGED <<gui, dialog, valueVars>>

Next ==
  \/ clear
  \/ addSibling
  \/ addDescendant
  \/ up
  \/ down
  \/ left
  \/ right
  \/ top
  \/ bottom
  \/ returnToCurrent

Spec == Init /\ [][Next]_vars

----------------------------------------------------------------------------
(* A fresh Chat on which only addDescendant is called; nCalls counts the   *)
(* calls.                                                                  *)

\* The prompts and responses of the scenario calls.
ScenarioPrompts == {Message("user", "hi"), Message("assistant", "hello"), Message("user", "")}

ScenarioResponses == {ResponseDefault, Response(<<Message("assistant", "hello")>>, "r")}

addDescendantOnly ==
  /\ chat.n < MaxEntries
  /\ \E p \in ScenarioPrompts, r \in ScenarioResponses : chat' = AddDescendant(chat, p, r)
  /\ op' = "addDescendant"
  /\ nCalls' = nCalls + 1
  /\ UNCHANGED <<gui, dialog, api, chain, params>>

NextScenario == addDescendantOnly

SpecScenario == Init /\ [][NextScenario]_vars

----------------------------------------------------------------------------
(* The window driven by its user, the worker threads and the timer.  Every *)
(* handler runs to completion on the window thread; the steps of a worker  *)
(* interleave with them.  op is left alone: it names calls made on the     *)
(* Chat directly.  dialog is the title of the QErrorMessage the step has   *)
(* shown, "" when it has shown none.                                       *)

\* The user types into the prompt field; _onPromptChanged runs unless the
\* field's signals are blocked.
_onPromptChanged ==
  /\ \E t \in PromptTexts \cup {""} :
       /\ t # gui.promptField
       /\ gui' = [gui EXCEPT !.promptField = t]
       /\ chat' = IF gui.blocked THEN chat
                  ELSE [chat EXCEPT !.prompt[chat.current].content = t]
  /\ dialog' = "" /\ UNCHANGED <<op, valueVars>>

\* Submit: refused without a connection or a valid key, else the prompt is
\* placed in the tree and a thread and a timer are started.
_onSubmitButton ==
  /\ \E ready \in BOOLEAN, role \in Roles :
       IF ~ready THEN UNCHANGED <<chat, gui>>
       ELSE /\ FreeCalls(gui) # {}
            /\ chat.cursor # chat.current => chat.n < MaxWindowEntries
            /\ chat' = SubmitChat(chat, Message(role, gui.promptField))
            /\ gui' = SubmitGui(gui, chat')
  /\ dialog' = "" /\ UNCHANGED <<op, valueVars>>

\* Stop: without a thread the AttributeError is swallowed.
_onStopButton ==
  /\ IF gui.thread = None THEN UNCHANGED gui
     ELSE LET g1 == [gui EXCEPT !.timer = "inactive",
                                !.calls[gui.thread].stopped =
                                    @ \/ gui.thread \in Unhandled(gui)]
          IN  gui' = [Terminate(g1) EXCEPT !.loading = FALSE]
  /\ dialog' = "" /\ UNCHANGED <<chat, op, valueVars>>

_onClearButton ==
  /\ chat' = Clear(chat)
  /\ gui' = [gui EXCEPT !.promptField = "", !.responseField = << >>,
                        !.calls = [k \in Calls |->
                                     IF gui.calls[k].st = "unused" THEN gui.calls[k]
                                     ELSE [gui.calls[k] EXCEPT !.entry = Dropped]]]
  /\ dialog' = "" /\ UNCHANGED <<op, valueVars>>

_onUpButton ==
  /\ chat' = Up(chat)
  /\ gui' = IF chat'.err # "" THEN gui ELSE FieldsFromChatEntry(chat', gui, chat'.cursor)
  /\ dialog' = "" /\ UNCHANGED <<op, valueVars>>

_onDownButton ==
  /\ chat' = Down(chat)
  /\ gui' = IF chat'.err # "" THEN gui ELSE FieldsFromChatEntry(chat', gui, chat'.cursor)
  /\ dialog' = "" /\ UNCHANGED <<op, valueVars>>

_onLeftButton ==
  /\ chat' = Left(chat)
  /\ gui' = IF chat'.err # "" THEN gui ELSE FieldsFromChatEntry(chat', gui, chat'.cursor)
  /\ dialog' = "" /\ UNCHANGED <<op, valueVars>>

_onRightButton ==
  /\ chat' = Right(chat)
  /\ gui' = IF chat'.err # "" THEN gui ELSE FieldsFromChatEntry(chat', gui, chat'.cursor)
  /\ dialog' = "" /\ UNCHANGED <<op, valueVars>>

\* streamTask of call k reads the next chunk with content and inserts its
\* text into the response field.
streamTask ==
  /\ \E k \in InFlight(gui) :
       /\ gui.calls[k].got < Len(StreamChunks)
       /\ gui' = [gui EXCEPT !.calls[k].got = @ + 1,
                             !.responseField =
                                Append(@, [call |-> k, text |-> StreamChunks[gui.calls[k].got + 1]])]
  /\ dialog' = "" /\ UNCHANGED <<chat, op, valueVars>>

\* The completion call of k raises (connection, key): run() ends without
\* emitting.
CallRaises(k) ==
  /\ k \in InFlight(gui)
  /\ gui' = [gui EXCEPT !.calls[k] = NoCall]
  /\ dialog' = "" /\ UNCHANGED <<chat, op, valueVars>>

\* ResultThread.run: the reply has ended, after all its chunks or without a
\* chunk with content, and eFinished is emitted; or the call raises.
run ==
  \E k \in InFlight(gui) :
    \/ /\ \E result \in Results :
            gui.calls[k].got = (IF result = "ok" THEN Len(StreamChunks) ELSE 0)
       /\ gui' = [gui EXCEPT !.calls[k].st = "emitted"]
       /\ dialog' = "" /\ UNCHANGED <<chat, op, valueVars>>
    \/ CallRaises(k)

\* The queued eFinished of call k is delivered: _onResponseCompleted, then
\* the indicator is hidden and self._timer stopped.  A payload that does not
\* parse makes response.choices raise before anything is changed.
afterTask ==
  /\ \E k \in Calls :
       /\ gui.calls[k].st = "emitted"
       /\ IF gui.calls[k].got = 0
          THEN /\ chat' = Raise(chat, "AttributeError")
               /\ gui' = [gui EXCEPT !.calls[k] = NoCall]
          ELSE /\ chat.n < MaxWindowEntries
               /\ chat' = ResponseCompleted(chat)
               /\ gui' = [gui EXCEPT !.calls[k] = NoCall,
                                     !.responseField = <<[call |-> 0, text |-> StreamContent]>>,
                                     !.loading = FALSE,
                                     !.timer = "inactive"]
  /\ dialog' = "" /\ UNCHANGED <<op, valueVars>>

\* The 30 s timer of the latest submission fires.
onTimeout ==
  /\ gui.timer = "active"
  /\ gui' = [Terminate(gui) EXCEPT !.timer = "inactive", !.loading = FALSE]
  /\ dialog' = "Request Timed Out" /\ UNCHANGED <<chat, op, valueVars>>

NextGui ==
  \/ _onPromptChanged
  \/ _onSubmitButton
  \/ _onStopButton
  \/ _onClearButton
  \/ _onUpButton
  \/ _onDownButton
  \/ _onLeftButton
  \/ _onRightButton
  \/ streamTask
  \/ run
  \/ afterTask
  \/ onTimeout

SpecGui == Init /\ [][NextGui]_vars

----------------------------------------------------------------------------
(* Parsing of API payloads (Message, PartialMessage, Usage, Response).     *)
(* A JSON value is a record tagged with its Python type: t is "int",       *)
(* "str", "list" or "dict" and v the value; a dict has a fixed set of keys *)
(* and a key the dict does not hold maps to Absent.  Message contents are  *)
(* sequences of characters, so that += is \o.  The result of a call is a   *)
(* record: st is "ok" (val is the object returned), "None" or the name of  *)
(* the exception raised.                                                   *)

Absent == [t |-> "absent"]

JInt(i) == [t |-> "int", v |-> i]

JStr(s) == [t |-> "str", v |-> s]

JList(l) == [t |-> "list", v |-> l]

JDict(d) == [t |-> "dict", v |-> d]

\* `key in x`: a list of dicts holds no string.
KeyIn(k, x) == IF x.t = "dict" THEN k \in DOMAIN x.v /\ x.v[k].t # "absent" ELSE FALSE

\* Python truth value of a value (dict.get gives None when the key is absent).
Truthy(x) ==
  CASE x.t \in {"absent", "None"} -> FALSE
    [] x.t \in {"int", "float"} -> x.v # 0
    [] x.t = "bool" -> x.v
    [] x.t = "dict" -> \E k \in DOMAIN x.v : x.v[k].t # "absent"
    [] OTHER -> x.v # << >>

RetNone == [st |-> "None", val |-> None]

Raised(e) == [st |-> e, val |-> None]

Ret(x) == [st |-> "ok", val |-> x]

\* Message.__init__: the four property setters check the types in turn.
MessageInit(role, content, id, created) ==
  IF role.t # "str" THEN Raised("TypeError")
  ELSE IF content.t # "str" THEN Raised("TypeError")
  ELSE IF id.t # "str" THEN Raised("TypeError")
  ELSE IF created.t # "int" THEN Raised("TypeError")
  ELSE Ret([role |-> role.v, content |-> content.v, id |-> id.v, created |-> created.v])

ToApiMessage(m) == JDict([role |-> JStr(m.role), content |-> JStr(m.content)])

MessageFromApiResponse(apiResponse) ==
  IF ~KeyIn("choices", apiResponse) \/ ~KeyIn("id", apiResponse) \/ ~KeyIn("created", apiResponse)
  THEN RetNone
  ELSE LET choices == apiResponse.v.choices
           id      == apiResponse.v.id
           created == apiResponse.v.created
       IN
       IF id.t # "str" \/ choices.t # "list" \/ created.t # "int" THEN RetNone
       ELSE IF Len(choices.v) = 0 THEN RetNone
       ELSE LET choice == choices.v[1] IN
            IF choice.t # "dict" THEN RetNone
            ELSE IF ~KeyIn("message", choice) /\ ~KeyIn("delta", choice) THEN RetNone
            ELSE LET isDelta == KeyIn("delta", choice)
                     message == IF isDelta THEN choice.v.delta ELSE choice.v.message
                 IN
                 IF message.t # "dict" THEN RetNone
                 ELSE IF ~KeyIn("content", message) THEN RetNone
                 ELSE IF ~isDelta /\ ~KeyIn("role", message) THEN RetNone
                 ELSE MessageInit(IF isDelta THEN JStr("assistant") ELSE message.v.role,
                                  message.v.content, id, created)

(* PartialMessage objects are compared by identity and linked to each      *)
(* other; a heap is the sequence of the fragments made so far and a        *)
(* fragment is named by its position.  A call returns st, val and the heap *)
(* it leaves.                                                              *)

\* PartialMessage.__init__ that leaves _first at self.
PartialMessageInitOwnFirst(heap, role, content, id, created, prev) ==
  LET m    == MessageInit(role, content, id, created)
      self == Len(heap) + 1
  IN
  IF m.st # "ok" THEN [st |-> m.st, val |-> None, heap |-> heap]
  ELSE LET node == [role |-> m.val.role, content |-> m.val.content,
                    id |-> m.val.id, created |-> m.val.created,
                    prev |-> prev, next |-> None, first |-> self,
                    idx |-> IF prev = None THEN 0 ELSE heap[prev].idx + 1]
           linked == IF prev = None THEN heap ELSE [heap EXCEPT ![prev].next = self]
       IN  [st |-> "ok", val |-> self, heap |-> Append(linked, node)]

PartialMessageInit(heap, role, content, id, created, prev) ==
  LET m    == MessageInit(role, content, id, created)
      self == Len(heap) + 1
  IN
  IF m.st # "ok" THEN [st |-> m.st, val |-> None, heap |-> heap]
  ELSE LET node == [role |-> m.val.role, content |-> m.val.content,
                    id |-> m.val.id, created |-> m.val.created,
                    prev |-> prev, next |-> None,
                    first |-> IF prev = None THEN self ELSE heap[prev].first,
                    idx |-> IF prev = None THEN 0 ELSE heap[prev].idx + 1]
           linked == IF prev = None THEN heap ELSE [heap EXCEPT ![prev].next = self]
       IN  [st |-> "ok", val |-> self, heap |-> Append(linked, node)]

RECURSIVE ContentFrom(_, _)
ContentFrom(heap, partial) ==
  IF partial = None THEN << >>
  ELSE heap[partial].content \o ContentFrom(heap, heap[partial].next)

\* PartialMessage.toMessage
ToMessage(heap, self) ==
  [role |-> heap[self].role, content |-> ContentFrom(heap, heap[self].first),
   id |-> heap[self].id, created |-> heap[self].created]

PartialMessageFromApiResponse(heap, apiResponse, previous) ==
  LET none == [st |-> "None", val |-> None, heap |-> heap] IN
  IF ~KeyIn("choices", apiResponse) \/ ~KeyIn("id", apiResponse) \/ ~KeyIn("created", apiResponse)
  THEN none
  ELSE LET id      == apiResponse.v.id
           choices == apiResponse.v.choices
           created == apiResponse.v.created
       IN
       IF id.t # "str" \/ choices.t # "list" \/ created.t # "int" THEN none
       ELSE IF Len(choices.v) = 0 THEN none
       ELSE LET choice == choices.v[1] IN
            IF choice.t # "dict" THEN none
            ELSE IF ~KeyIn("delta", choice) THEN none
            ELSE LET message == choice.v.delta IN
                 IF message.t # "dict" THEN none
                 ELSE IF ~KeyIn("content", message) THEN none
                 ELSE PartialMessageInit(heap, JStr("assistant"), message.v.content,
                                         id, created, previous)

\* The loop of PartialMessage.FromApiResponses from the i-th response on.
RECURSIVE FromApiResponsesLoop(_, _, _, _, _)
FromApiResponsesLoop(heap, apiResponses, i, first, prev) ==
  IF i > Len(apiResponses) THEN [st |-> "ok", val |-> first, heap |-> heap]
  ELSE LET message == PartialMessageFromApiResponse(heap, apiResponses[i], prev) IN
       IF message.st # "ok" THEN message
       ELSE LET linked == IF prev # None
                          THEN [message.heap EXCEPT ![prev].next = message.val]
                          ELSE message.heap
            IN  FromApiResponsesLoop(linked, apiResponses, i + 1,
                                     IF first = None THEN message.val ELSE first,
                                     message.val)

PartialMessageFromApiResponses(apiResponses) ==
  IF Len(apiResponses.v) = 0 THEN [st |-> "None", val |-> None, heap |-> << >>]
  ELSE FromApiResponsesLoop(<< >>, apiResponses.v, 1, None, None)

UsageDefault == [prompt_tokens |-> 0, completion_tokens |-> 0, total_tokens |-> 0]

UsageIsDefault(u) == u.prompt_tokens = 0 /\ u.completion_tokens = 0 /\ u.total_tokens = 0

ToApiUsage(u) ==
  JDict([prompt_tokens |-> JInt(u.prompt_tokens),
         completion_tokens |-> JInt(u.completion_tokens),
         total_tokens |-> JInt(u.total_tokens)])

UsageFromApiResponse(apiResponse) ==
  IF \/ ~KeyIn("prompt_tokens", apiResponse)
     \/ ~KeyIn("completion_tokens", apiResponse)
     \/ ~KeyIn("total_tokens", apiResponse)
  THEN RetNone
  ELSE IF \/ apiResponse.v.prompt_tokens.t # "int"
          \/ apiResponse.v.completion_tokens.t # "int"
          \/ apiResponse.v.total_tokens.t # "int"
  THEN RetNone
  ELSE Ret([prompt_tokens |-> apiResponse.v.prompt_tokens.v,
            completion_tokens |-> apiResponse.v.completion_tokens.v,
            total_tokens |-> apiResponse.v.total_tokens.v])

\* Response.toApiResponse that always writes usage.
ToApiResponseAlwaysUsage(resp) ==
  JDict([choices |-> JList([i \in 1..Len(resp.choices) |-> ToApiMessage(resp.choices[i])]),
         created |-> JInt(resp.created),
         id |-> JStr(resp.id),
         model |-> JStr(resp.model),
         object |-> JStr(resp.object_),
         usage |-> ToApiUsage(resp.usage)])

ToApiResponse(resp) ==
  JDict([choices |-> JList([i \in 1..Len(resp.choices) |-> ToApiMessage(resp.choices[i])]),
         created |-> JInt(resp.created),
         id |-> JStr(resp.id),
         model |-> JStr(resp.model),
         object |-> JStr(resp.object_),
         usage |-> IF ~UsageIsDefault(resp.usage) THEN ToApiUsage(resp.usage) ELSE Absent])

\* parseResponse of Response.FromApiResponse; it reads the argument of the
\* enclosing call, not its own, and parses that argument once per choice.
ParseResponse(apiResponse) ==
  IF \/ ~KeyIn("choices", apiResponse) \/ ~KeyIn("id", apiResponse)
     \/ ~KeyIn("created", apiResponse) \/ ~KeyIn("model", apiResponse)
     \/ ~KeyIn("object", apiResponse)
  THEN RetNone
  ELSE LET choicesApi == apiResponse.v.choices
           idApi      == apiResponse.v.id
           createdApi == apiResponse.v.created
           modelApi   == apiResponse.v.model
           objectApi  == apiResponse.v.object
           usageApi   == apiResponse.v.usage
       IN
       IF \/ choicesApi.t # "list" \/ idApi.t # "str" \/ createdApi.t # "int"
          \/ modelApi.t # "str" \/ objectApi.t # "str"
       THEN RetNone
       ELSE IF Truthy(usageApi) /\ usageApi.t # "dict" THEN RetNone
       ELSE LET message == MessageFromApiResponse(apiResponse)  \* messageFromApiResponse of a dict
                parsed  == IF Truthy(usageApi) THEN UsageFromApiResponse(usageApi) ELSE RetNone
                usage   == IF parsed.st = "ok" THEN parsed.val ELSE UsageDefault
            IN
            IF Len(choicesApi.v) > 0 /\ message.st # "ok" THEN message
            ELSE Ret([choices |-> [i \in 1..Len(choicesApi.v) |-> message.val],
                      created |-> createdApi.v, id |-> idApi.v, model |-> modelApi.v,
                      object_ |-> objectApi.v, usage |-> usage])

ResponseFromApiResponse(apiResponse) ==
  IF apiResponse.t = "dict" THEN ParseResponse(apiResponse)
  ELSE IF Len(apiResponse.v) = 0 THEN RetNone
  ELSE ParseResponse(apiResponse)

ResponseFromApiResponses(apiResponses) ==
  IF Len(apiResponses.v) = 0 THEN RetNone
  ELSE IF Len(apiResponses.v) = 1 THEN ResponseFromApiResponse(apiResponses.v[1])
  ELSE LET resp    == ResponseFromApiResponse(apiResponses.v[1])
           message == PartialMessageFromApiResponses(apiResponses)  \* messageFromApiResponse of a list
       IN
       IF resp.st # "ok" THEN resp
       ELSE IF message.st # "ok" THEN [st |-> message.st, val |-> None]
       ELSE Ret([resp.val EXCEPT !.choices = <<ToMessage(message.heap, message.val)>>])

(* The payloads the parsers are given.                                     *)

\* Largest number of streamed chunks given to FromApiResponses.
MaxChunks == 3

ChunkTexts == {<<"H", "e", "l">>, <<"l", "o">>, <<",", " ", "w", "o", "r", "l", "d">>}

MessageDicts ==
  {JDict([role |-> r, content |-> c]) :
     r \in {Absent, JInt(0), JStr("assistant")},
     c \in {Absent, JInt(5), JStr(<<"h", "e", "l", "l", "o">>)}}

DeltaDicts ==
  {JDict([role |-> Absent, content |-> c]) : c \in {Absent, JInt(5), JStr(<<"H", "e", "l">>)}}

ChoiceValues ==
  {JInt(0)} \cup
  {JDict([message |-> m, delta |-> d]) :
     m \in {Absent, JInt(0)} \cup MessageDicts, d \in {Absent} \cup DeltaDicts}

GoodChoice ==
  JDict([message |-> JDict([role |-> JStr("assistant"), content |-> JStr(<<"h", "e", "l", "l", "o">>)]),
         delta |-> Absent])

OtherChoice ==
  JDict([message |-> JDict([role |-> JStr("assistant"), content |-> JStr(<<"l", "o">>)]),
         delta |-> Absent])

ChoicesValues ==
  {Absent, JInt(0), JList(<< >>), JList(<<GoodChoice, JInt(0)>>), JList(<<GoodChoice, OtherChoice>>)}
  \cup {JList(<<c>>) : c \in ChoiceValues}

UsageDict(p, c, t) == JDict([prompt_tokens |-> p, completion_tokens |-> c, total_tokens |-> t])

UsageValues ==
  {Absent, JStr(<<"x">>), UsageDict(Absent, Absent, Absent), UsageDict(JInt(0), JInt(0), JInt(0)),
   UsageDict(JInt(5), JInt(1), JInt(6)), UsageDict(JInt(5), Absent, Absent)}

ResponseDicts ==
  {JDict([choices |-> ch, id |-> id, created |-> cr, model |-> mo, object |-> ob, usage |-> us]) :
     ch \in ChoicesValues,
     id \in {Absent, JInt(7), JStr("id1")},
     cr \in {Absent, JStr(<<"n">>), JInt(1)},
     mo \in {Absent, JInt(4), JStr("gpt-4")},
     ob \in {Absent, JStr("chat.completion")},
     us \in UsageValues}

\* One streamed chunk whose delta holds the given content.
Chunk(id, content) ==
  JDict([choices |-> JList(<<JDict([message |-> Absent,
                                    delta |-> JDict([role |-> Absent, content |-> content])])>>),
         id |-> id, created |-> JInt(1), model |-> JStr("gpt-4"),
         object |-> JStr("chat.completion.chunk"), usage |-> Absent])

Chunks ==
  {Chunk(JStr("id1"), JStr(x)) : x \in ChunkTexts}
  \cup {Chunk(JStr("id1"), JInt(5)), Chunk(JStr("id1"), Absent), Chunk(Absent, JStr(<<"l", "o">>))}

RECURSIVE ListsOf(_, _)
ListsOf(S, n) ==
  IF n = 0 THEN {<< >>}
  ELSE LET shorter == ListsOf(S, n - 1) IN
       shorter \cup {Append(l, x) : l \in {k \in shorter : Len(k) = n - 1}, x \in S}

ResponseLists == {JList(l) : l \in ListsOf(Chunks, MaxChunks)}

Payloads == ResponseDicts \cup ResponseLists

ParseFns ==
  {"Message.FromApiResponse", "PartialMessage.FromApiResponse", "PartialMessage.FromApiResponses",
   "Response.FromApiResponse", "Response.FromApiResponses"}

InitParse ==
  /\ chat = Clear(Blank) /\ op = "__init__" /\ gui = WindowInit /\ dialog = ""
  /\ nCalls = 0 /\ chain = << >> /\ params = << >>
  /\ api \in {[fn |-> "input", arg |-> p, res |-> RetNone] : p \in Payloads}

Called(fn, res) == api' = [fn |-> fn, arg |-> api.arg, res |-> [st |-> res.st, val |-> res.val]]

callMessageFromApiResponse ==
  /\ api.fn = "input" /\ api.arg.t = "dict"
  /\ Called("Message.FromApiResponse", MessageFromApiResponse(api.arg))
  /\ UNCHANGED <<chat, op, gui, dialog, nCalls, chain, params>>

callPartialMessageFromApiResponse ==
  /\ api.fn = "input" /\ api.arg.t = "dict"
  /\ LET res == PartialMessageFromApiResponse(<< >>, api.arg, None) IN
     Called("PartialMessage.FromApiResponse", res) /\ chain' = res.heap
  /\ UNCHANGED <<chat, op, gui, dialog, nCalls, params>>

callPartialMessageFromApiResponses ==
  /\ api.fn = "input" /\ api.arg.t = "list"
  /\ LET res == PartialMessageFromApiResponses(api.arg) IN
     Called("PartialMessage.FromApiResponses", res) /\ chain' = res.heap
  /\ UNCHANGED <<chat, op, gui, dialog, nCalls, params>>

callResponseFromApiResponse ==
  /\ api.fn = "input"
  /\ Called("Response.FromApiResponse", ResponseFromApiResponse(api.arg))
  /\ UNCHANGED <<chat, op, gui, dialog, nCalls, chain, params>>

callResponseFromApiResponses ==
  /\ api.fn = "input" /\ api.arg.t = "list"
  /\ Called("Response.FromApiResponses", ResponseFromApiResponses(api.arg))
  /\ UNCHANGED <<chat, op, gui, dialog, nCalls, chain, params>>

callToApiResponse ==
  /\ api.fn \in {"Response.FromApiResponse", "Response.FromApiResponses"}
  /\ api.res.st = "ok"
  /\ Called("Response.toApiResponse", Ret(ToApiResponse(api.res.val)))
  /\ UNCHANGED <<chat, op, gui, dialog, nCalls, chain, params>>

\* Response.FromApiResponse applied to the dict toApiResponse has written.
callFromApiResponseOfSerialized ==
  /\ api.fn = "Response.toApiResponse"
  /\ Called("Response.FromApiResponse(toApiResponse)", ResponseFromApiResponse(api.res.val))
  /\ UNCHANGED <<chat, op, gui, dialog, nCalls, chain, params>>

NextParse ==
  \/ callMessageFromApiResponse
  \/ callPartialMessageFromApiResponse
  \/ callPartialMessageFromApiResponses
  \/ callResponseFromApiResponse
  \/ callResponseFromApiResponses
  \/ callToApiResponse
  \/ callFromApiResponseOfSerialized

SpecParse == InitParse /\ [][NextParse]_vars

----------------------------------------------------------------------------
(* ChatCompletionParams.  An object o is the record of its fields; an      *)
(* optional field holds PyNone until it is given a value.  A float is      *)
(* named by its value, which is a whole number in every input used here;   *)
(* apiKey, model and messages are "", "gpt-4" and [] throughout.  A        *)
(* setter or constructor call returns st ("ok" or the exception raised)    *)
(* and the object as the call leaves it.                                   *)

PyNone == [t |-> "None"]

JFloat(x) == [t |-> "float", v |-> x]

JBool(b) == [t |-> "bool", v |-> b]

TokenSet(tokens, bias) == [tokens |-> tokens, bias |-> bias]

\* The check a property setter makes before it stores the value.
SetterRaises(field, value) ==
  CASE field \in {"temperature", "top_p", "frequency_penalty", "presence_penalty"} ->
         Truthy(value) /\ value.t # "float"
    [] field \in {"max_tokens", "n"} -> Truthy(value) /\ value.t # "int"
    [] field = "stop" ->
         Truthy(value) /\ (value.t # "list" \/ \E i \in 1..Len(value.v) : value.v[i].t # "str")
    [] field = "user" -> Truthy(value) /\ value.t # "str"
    [] field = "stream" -> value.t # "bool"
    [] field \in {"apiKey", "model"} -> value.t # "str"
    [] field = "messages" -> value.t # "list"

\* o.field = value
SetAttr(o, field, value) ==
  IF SetterRaises(field, value) THEN [st |-> "TypeError", obj |-> o]
  ELSE [st |-> "ok", obj |-> [o EXCEPT ![field] = value]]

SetLogitBias(o, logit_bias) ==
  IF Truthy(logit_bias) /\ logit_bias.t # "list" THEN [st |-> "TypeError", obj |-> o]
  ELSE [st |-> "ok", obj |-> [o EXCEPT !.logit_bias = logit_bias]]

\* The assignments of __init__ through the property setters, in order; the
\* first that raises ends the construction.
RECURSIVE SetAttrs(_, _, _)
SetAttrs(o, assignments, i) ==
  IF i > Len(assignments) THEN [st |-> "ok", obj |-> o]
  ELSE LET r == SetAttr(o, assignments[i][1], assignments[i][2]) IN
       IF r.st # "ok" THEN r ELSE SetAttrs(r.obj, assignments, i + 1)

Unset ==
  [apiKey |-> PyNone, model |-> PyNone, messages |-> PyNone, temperature |-> PyNone,
   max_tokens |-> PyNone, top_p |-> PyNone, n |-> PyNone, frequency_penalty |-> PyNone,
   presence_penalty |-> PyNone, stop |-> PyNone, stream |-> JBool(TRUE),
   logit_bias |-> PyNone, user |-> PyNone]

\* ChatCompletionParams.__init__ with the keyword arguments a.
ParamsInit(a) ==
  LET IsFloatIn(x, lo, hi) == x.t = "float" /\ x.v >= lo /\ x.v <= hi IN
  IF Truthy(a.temperature) /\ ~IsFloatIn(a.temperature, 0, 2)
  THEN [st |-> "ValueError", obj |-> Unset]
  ELSE IF Truthy(a.max_tokens) /\ a.max_tokens.t # "int"
  THEN [st |-> "TypeError", obj |-> Unset]
  ELSE IF Truthy(a.top_p) /\ ~IsFloatIn(a.top_p, 0, 1)
  THEN [st |-> "ValueError", obj |-> Unset]
  ELSE IF Truthy(a.n) /\ (a.n.t # "int" \/ a.n.v < 1 \/ a.n.v > 10)
  THEN [st |-> "ValueError", obj |-> Unset]
  ELSE IF Truthy(a.frequency_penalty) /\ ~IsFloatIn(a.frequency_penalty, -2, 2)
  THEN [st |-> "ValueError", obj |-> Unset]
  ELSE IF Truthy(a.presence_penalty) /\ ~IsFloatIn(a.presence_penalty, -2, 2)
  THEN [st |-> "ValueError", obj |-> Unset]
  ELSE IF Truthy(a.stop) /\ (a.stop.t # "list" \/ Len(a.stop.v) > 4)
  THEN [st |-> "ValueError", obj |-> Unset]
  ELSE IF Truthy(a.logit_bias) /\ a.logit_bias.t # "list"
  THEN [st |-> "ValueError", obj |-> Unset]
  ELSE IF Truthy(a.user) /\ (a.user.t # "str" \/ Len(a.user.v) > 256)
  THEN [st |-> "ValueError", obj |-> Unset]
  ELSE LET r == SetAttrs(Unset,
                         << <<"apiKey", JStr(<< >>)>>, <<"model", JStr("gpt-4")>>,
                            <<"messages", JList(<< >>)>>,
                            <<"temperature", a.temperature>>, <<"max_tokens", a.max_tokens>>,
                            <<"top_p", a.top_p>>, <<"n", a.n>>,
                            <<"frequency_penalty", a.frequency_penalty>>,
                            <<"presence_penalty", a.presence_penalty>>,
                            <<"stop", a.stop>>, <<"stream", a.stream>> >>, 1)
       IN
       IF r.st # "ok" THEN r
       ELSE SetAttr([r.obj EXCEPT !.logit_bias = a.logit_bias], "user", a.user)

\* hasTemperature(), hasMaxTokens(), ...
HasX(o, field) == o[field].t # "None"

\* for t in tset.tokens: lbd[t] = tset.bias
RECURSIVE MergeLogitBias(_, _, _)
MergeLogitBias(lbd, sets, i) ==
  IF i > Len(sets) THEN lbd
  ELSE LET tokens == {sets[i].tokens[k] : k \in 1..Len(sets[i].tokens)} IN
       MergeLogitBias([t \in DOMAIN lbd \cup tokens |->
                         IF t \in tokens THEN sets[i].bias ELSE lbd[t]],
                      sets, i + 1)

ToDict(o) ==
  LET IfSet(x) == IF Truthy(x) THEN x ELSE Absent IN
  JDict([model |-> o.model,
         messages |-> JList([i \in 1..Len(o.messages.v) |-> ToApiMessage(o.messages.v[i])]),
         temperature |-> IfSet(o.temperature),
         max_tokens |-> IfSet(o.max_tokens),
         top_p |-> IfSet(o.top_p),
         n |-> IfSet(o.n),
         frequency_penalty |-> IfSet(o.frequency_penalty),
         presence_penalty |-> IfSet(o.presence_penalty),
         stop |-> IfSet(o.stop),
         stream |-> IfSet(o.stream),
         logit_bias |-> IF Truthy(o.logit_bias)
                        THEN JDict(MergeLogitBias(<< >>, o.logit_bias.v, 1))
                        ELSE Absent,
         user |-> Absent])

(* The values the constructor and the setters are given.                   *)

TemperatureInputs == {PyNone, JFloat(0), JFloat(1), JFloat(3), JInt(1)}

MaxTokensInputs == {PyNone, JInt(0), JInt(100), JFloat(1)}

TopPInputs == {PyNone, JFloat(1), JFloat(2)}

NInputs == {PyNone, JInt(0), JInt(1), JInt(11), JFloat(1)}

FrequencyPenaltyInputs == {PyNone, JFloat(0), JFloat(-3)}

PresencePenaltyInputs == {PyNone, JFloat(3)}

StopInputs ==
  {PyNone, JList([i \in 1..4 |-> JStr(<<"s">>)]), JList([i \in 1..5 |-> JStr(<<"s">>)])}

StreamInputs == {JBool(TRUE), JBool(FALSE)}

LogitBiasInputs ==
  {PyNone, JList(<<TokenSet(<<1, 2>>, JFloat(1)), TokenSet(<<2, 3>>, JFloat(-1))>>)}

UserInputs == {PyNone, JStr(<<"b", "o", "b">>), JStr([i \in 1..257 |-> "a"])}

CtorArgs ==
  [temperature : TemperatureInputs, max_tokens : MaxTokensInputs, top_p : TopPInputs,
   n : NInputs, frequency_penalty : FrequencyPenaltyInputs,
   presence_penalty : PresencePenaltyInputs, stop : StopInputs, stream : StreamInputs,
   logit_bias : LogitBiasInputs, user : UserInputs]

(* params.made: an object was constructed; params.obj: the object;         *)
(* params.err: the exception the last call raised; params.dict: what       *)
(* toDict() returned when it was the last call.                            *)

NoParams == [made |-> FALSE, obj |-> Unset, err |-> "", dict |-> Absent]

InitParams ==
  /\ chat = Clear(Blank) /\ op = "__init__" /\ gui = WindowInit /\ dialog = ""
  /\ nCalls = 0 /\ api = << >> /\ chain = << >>
  /\ params = NoParams

AfterCall(r) ==
  params' = [made |-> TRUE, obj |-> r.obj, err |-> IF r.st = "ok" THEN "" ELSE r.st,
             dict |-> Absent]

construct ==
  /\ ~params.made
  /\ \E a \in CtorArgs :
       LET r == ParamsInit(a) IN
       IF r.st = "ok" THEN AfterCall(r) ELSE params' = [params EXCEPT !.err = r.st]
  /\ UNCHANGED <<chat, op, gui, dialog, nCalls, api, chain>>

Assign(field, inputs) ==
  /\ params.made
  /\ \E value \in inputs : AfterCall(SetAttr(params.obj, field, value))
  /\ UNCHANGED <<chat, op, gui, dialog, nCalls, api, chain>>

setTemperature == Assign("temperature", TemperatureInputs)

setMaxTokens == Assign("max_tokens", MaxTokensInputs)

setTopP == Assign("top_p", TopPInputs)

setN == Assign("n", NInputs)

setFrequencyPenalty == Assign("frequency_penalty", FrequencyPenaltyInputs)

setPresencePenalty == Assign("presence_penalty", PresencePenaltyInputs)

setStop == Assign("stop", StopInputs)

setStream == Assign("stream", StreamInputs)

setUser == Assign("user", UserInputs)

setLogitBias ==
  /\ params.made
  /\ \E value \in LogitBiasInputs : AfterCall(SetLogitBias(params.obj, value))
  /\ UNCHANGED <<chat, op, gui, dialog, nCalls, api, chain>>

toDict ==
  /\ params.made
  /\ params' = [params EXCEPT !.err = "", !.dict = ToDict(params.obj)]
  /\ UNCHANGED <<chat, op, gui, dialog, nCalls, api, chain>>

NextParams ==
  \/ construct
  \/ setTemperature
  \/ setMaxTokens
  \/ setTopP
  \/ setN
  \/ setFrequencyPenalty
  \/ setPresencePenalty
  \/ setStop
  \/ setStream
  \/ setUser
  \/ setLogitBias
  \/ toDict

SpecParams == InitParams /\ [][NextParams]_vars

----------------------------------------------------------------------------
(* Properties of the Chat object.                                          *)

\* The entries that can be reached from the root by children links.
RECURSIVE ReachFrom(_, _)
ReachFrom(c, S) ==
  LET T == S \cup {e \in Entries : \E x \in S : Contains(c.children[x], e)} IN
  IF T = S THEN S ELSE ReachFrom(c, T)

Reachable(c) == ReachFrom(c, {Root})

NavOps == {"up", "down", "left", "right", "top", "bottom", "returnToCurrent"}

\* Where the cursor really is, read from the parent/children links.
AtTopLevel(c) == c.parent[c.cursor] = None \/ c.parent[c.cursor] = Root

HasSiblingBefore(c) == c.parent[c.cursor] # None /\ EntryIndex(c, c.cursor) > 0

HasSiblingAfter(c) ==
  /\ c.parent[c.cursor] # None
  /\ EntryIndex(c, c.cursor) < Len(c.children[c.parent[c.cursor]]) - 1

\* C1: in every reachable state current and cursor are entries reachable
\* from the root sentinel by children links.
C1_CurrentAndCursorReachable ==
  chat.current \in Reachable(chat) /\ chat.cursor \in Reachable(chat)

\* C2: no navigation call raises, and a navigation call in a direction that
\* is not available leaves the cursor where it is.
C2_NavigationNeverRaises ==
  [][op' \in NavOps =>
       /\ chat'.err = ""
       /\ (op' = "up" /\ AtTopLevel(chat) => chat'.cursor = chat.cursor)
       /\ (op' = "down" /\ IsLeaf(chat, chat.cursor) => chat'.cursor = chat.cursor)
       /\ (op' = "left" /\ ~HasSiblingBefore(chat) => chat'.cursor = chat.cursor)
       /\ (op' = "right" /\ ~HasSiblingAfter(chat) => chat'.cursor = chat.cursor)]_vars

\* C5: in every reachable state the cached values equal what they are
\* derived from: _path is current.path(), _cursorPath is cursor.path() and
\* _cursorSiblingIndex is cursor.index().
C5_CachesAgree ==
  /\ chat.path = EntryPath(chat, chat.current)
  /\ chat.cursorPath = EntryPath(chat, chat.cursor)
  /\ chat.cursorSiblingIndex = EntryIndex(chat, chat.cursor)

\* C6: addSibling, called with the cursor on entry c, empties the prompt
\* content and the response choices of the old current, which keeps its place
\* in the tree and stays a leaf; it appends exactly one new entry as the last
\* child of c's parent and makes it both current and cursor.
C6_AddSiblingAppendsToParentOfCursor ==
  [][op' = "addSibling" =>
       LET old == chat.current
           par == chat.parent[chat.cursor]
           new == chat'.current
       IN  /\ chat'.prompt[old].content = ""
           /\ chat'.response[old].choices = << >>
           /\ chat'.parent[old] = chat.parent[old]
           /\ IsLeaf(chat', old)
           /\ chat'.n = chat.n + 1
           /\ new = chat'.n
           /\ chat'.cursor = new
           /\ par # None
           /\ chat'.parent[new] = par
           /\ chat'.children[par] = Append(chat.children[par], new)
           /\ \A e \in Entries \ {par} : chat'.children[e] = chat.children[e]]_vars

\* C7: addDescendant appends exactly one new entry as the last child of the
\* entry the cursor referenced before the call, makes it both current and
\* cursor, and sets previous to the entry that was current before the call.
C7_AddDescendantAppendsToCursor ==
  [][op' = "addDescendant" =>
       LET new == chat'.current IN
       /\ chat'.n = chat.n + 1
       /\ new = chat'.n
       /\ chat'.cursor = new
       /\ chat'.parent[new] = chat.cursor
       /\ chat'.children[chat.cursor] = Append(chat.children[chat.cursor], new)
       /\ \A e \in Entries \ {chat.cursor} : chat'.children[e] = chat.children[e]
       /\ \A e \in 0..chat.n : chat'.parent[e] = chat.parent[e]
       /\ chat'.previous = chat.current]_vars

\* C7 witness: addDescendant has just run with the cursor away from current,
\* so the new entry hangs under the old cursor and not under the old current.
C7_Witness ==
  /\ op = "addDescendant"
  /\ chat.previous # None
  /\ chat.parent[chat.current] # chat.previous
  /\ chat.parent[chat.current] # Root

\* C8: when the cursor is on the cached path to current and has more than
\* one child, down() moves it to the child that is the next entry of that
\* path; when the cursor is not on that path, down() moves it to its last
\* child.
C8_DownFollowsPathToCurrent ==
  [][op' = "down" =>
       LET kids == chat.children[chat.cursor] IN
       /\ (Contains(chat.path, chat.cursor) /\ Len(kids) > 1 =>
             /\ Contains(kids, chat'.cursor)
             /\ Contains(EntryPath(chat, chat.current), chat'.cursor))
       /\ (~Contains(chat.path, chat.cursor) /\ Len(kids) > 0 =>
             chat'.cursor = kids[Len(kids)])]_vars

\* C8 witness: down() has just moved the cursor to a child on the path to
\* current that is not the last child of its parent.
C8_Witness ==
  /\ op = "down"
  /\ chat.err = ""
  /\ chat.cursor # chat.current
  /\ Contains(chat.path, chat.cursor)
  /\ chat.parent[chat.cursor] # None
  /\ LET sibs == chat.children[chat.parent[chat.cursor]] IN
     Len(sibs) > 1 /\ sibs[Len(sibs)] # chat.cursor

\* C9: the root sentinel is never the displayed entry: the cursor is never
\* the root, and after top() it is the child of the root that lies on the
\* path to current.
C9_CursorNeverRoot ==
  /\ chat.cursor # Root
  /\ (op = "top" =>
        /\ chat.parent[chat.cursor] = Root
        /\ Contains(EntryPath(chat, chat.current), chat.cursor))

\* C10: after bottom() the cursor is current.
C10_BottomReachesCurrent == op = "bottom" => chat.cursor = chat.current

\* C11: left() with the cursor at sibling index 0, and up() with the cursor
\* on a child of the root, leave the cursor where it is and do not raise,
\* however often they are called.
C11_LeftAndUpAtEdgeAreNoOps ==
  [][/\ (op' = "left" /\ EntryIndex(chat, chat.cursor) = 0 =>
           chat'.cursor = chat.cursor /\ chat'.err = "")
     /\ (op' = "up" /\ chat.parent[chat.cursor] = Root =>
           chat'.cursor = chat.cursor /\ chat'.err = "")]_vars

\* C12: clear() yields a state where isDefault() holds, the four boundary
\* checks are false, cursor is current, previous is absent and the root has
\* exactly one child.
C12_ClearYieldsDefault ==
  op = "clear" =>
    /\ IsDefault(chat)
    /\ ~CanMoveUp(chat) /\ ~CanMoveDown(chat)
    /\ ~CanMoveLeft(chat) /\ ~CanMoveRight(chat)
    /\ chat.cursor = chat.current
    /\ chat.previous = None
    /\ Len(chat.children[Root]) = 1

\* C12 witness: clear() has just run and left the lone default entry.
C12_Witness == op = "clear" /\ chat.n = 1 /\ IsDefault(chat)

\* C13: each boundary check agrees with where the cursor really is, and is
\* false exactly when the matching move leaves the cursor where it is.
C13_BoundaryChecksAgree ==
  /\ CanMoveUp(chat) <=> ~AtTopLevel(chat)
  /\ CanMoveDown(chat) <=> ~IsLeaf(chat, chat.cursor)
  /\ CanMoveLeft(chat) <=> HasSiblingBefore(chat)
  /\ CanMoveRight(chat) <=> HasSiblingAfter(chat)
  /\ CanMoveUp(chat) <=> Up(chat).cursor # chat.cursor
  /\ CanMoveDown(chat) <=> Down(chat).cursor # chat.cursor
  /\ CanMoveLeft(chat) <=> Left(chat).cursor # chat.cursor
  /\ CanMoveRight(chat) <=> Right(chat).cursor # chat.cursor

\* C14 as stated: on a fresh Chat, after n addDescendant calls the path of
\* current has length n.
C14_PathLengthIsCallCount == Len(EntryPath(chat, chat.current)) = nCalls

\* C14 as amended: on a fresh Chat, after n addDescendant calls the path of
\* current has length n + 2: it holds the root sentinel, the default entry
\* clear() made, and the n entries added.
C14_PathLengthIsCallCountPlusTwo == Len(EntryPath(chat, chat.current)) = nCalls + 2

\* C14 witness: two calls were made and the path has four entries.
C14_Witness == nCalls = 2 /\ Len(EntryPath(chat, chat.current)) = 4

\* The messages messages() is said to return: for the entries of the path
\* that hold content, the prompt followed by the first response choice.
RECURSIVE StatedMessagesFrom(_, _, _)
StatedMessagesFrom(c, path, i) ==
  IF i > Len(path) THEN << >>
  ELSE LET entry == path[i]
           own == IF IsDefaultContent(c, entry) THEN << >>
                  ELSE IF Len(c.response[entry].choices) > 0
                       THEN <<c.prompt[entry], c.response[entry].choices[1]>>
                       ELSE <<c.prompt[entry]>>
       IN  own \o StatedMessagesFrom(c, path, i + 1)

\* C15: messages() returns, in path order, the prompt of each real entry of
\* the path followed by its first response choice, with no default
\* placeholder message; on a fresh Chat the turn user "hi" answered by
\* assistant "hello" linearizes to exactly those two messages.
C15_MessagesLinearizePath ==
  LET msgs == EntryMessages(chat, chat.current) IN
  /\ msgs = StatedMessagesFrom(chat, EntryPath(chat, chat.current), 1)
  /\ \A i \in 1..Len(msgs) : ~MessageIsDefault(msgs[i])
  /\ (/\ nCalls = 2
      /\ chat.prompt[2] = Message("user", "hi") /\ chat.response[2] = ResponseDefault
      /\ chat.prompt[3] = Message("assistant", "hello") /\ chat.response[3] = ResponseDefault
      => msgs = <<Message("user", "hi"), Message("assistant", "hello")>>)

\* Every child of an entry under the root names that entry as its parent,
\* and every entry under the root is listed once by its parent.
WellFormedTree(c) ==
  /\ \A x \in Reachable(c) :
       \A i \in 1..Len(c.children[x]) : c.parent[c.children[x][i]] = x
  /\ \A e \in Reachable(c) \ {Root} :
       /\ c.parent[e] \in Reachable(c)
       /\ Cardinality({i \in 1..Len(c.children[c.parent[e]]) :
                         c.children[c.parent[e]][i] = e}) = 1

IsPrefix(s, t) == Len(s) <= Len(t) /\ \A i \in 1..Len(s) : s[i] = t[i]

\* C24: the graph under the root is a well-formed tree in every state, and
\* a call other than clear() keeps every entry, every parent link and the
\* order of every children list, adding at most at the end of a list.
C24_TreeOnlyGrows ==
  /\ []WellFormedTree(chat)
  /\ [][op' # "clear" =>
          /\ chat'.n >= chat.n
          /\ \A x \in 0..chat.n :
               /\ chat'.parent[x] = chat.parent[x]
               /\ IsPrefix(chat.children[x], chat'.children[x])]_vars

\* C24 witness: a tree of three entries or more with two entries at the top
\* level and one below.
C24_Witness ==
  /\ chat.n >= 3
  /\ Len(chat.children[Root]) >= 2
  /\ \E e \in 1..chat.n : chat.parent[e] \in 1..chat.n

\* C28: current has no children; hence whenever down() would follow the
\* cached path, the cursor is not the last element of the path and the
\* element after it exists.
C28_CurrentIsLeaf ==
  /\ IsLeaf(chat, chat.current)
  /\ DownFollowsPath(chat) =>
       /\ chat.cursor # PyGet(chat.path, 0 - 1)
       /\ PyInRange(chat.path, PyIndex(chat.path, chat.cursor) + 1)

\* C28 witness: down() has followed the path to a child that is not the
\* last child of its parent.
C28_Witness ==
  /\ op = "down" /\ chat.err = ""
  /\ Contains(chat.path, chat.cursor)
  /\ chat.parent[chat.cursor] # None
  /\ EntryIndex(chat, chat.cursor) < Len(chat.children[chat.parent[chat.cursor]]) - 1

\* C29: up, down, left, right, top, bottom and returnToCurrent change
\* nothing but the cursor and its cached attributes: the entries, their
\* links, prompts and responses, current, previous and the cached path of
\* current are after the call what they were before it.
C29_NavigationOnlyMovesCursor ==
  [][op' \in NavOps =>
       /\ chat'.n = chat.n
       /\ chat'.parent = chat.parent
       /\ chat'.children = chat.children
       /\ chat'.prompt = chat.prompt
       /\ chat'.response = chat.response
       /\ chat'.current = chat.current
       /\ chat'.previous = chat.previous
       /\ chat'.path = chat.path]_vars

\* C29 witness: up() has moved the cursor off current, to an entry with
\* another path.
C29_Witness ==
  /\ op = "up" /\ chat.err = ""
  /\ chat.cursor # chat.current
  /\ chat.cursorPath # chat.path
  /\ chat.cursor = chat.parent[chat.current]

----------------------------------------------------------------------------
(* Properties of the parsers.                                              *)

HoldsContent(m) == m.t = "dict" /\ m.v.content.t = "str"

ChoiceHoldsFields(c) ==
  /\ c.t = "dict"
  /\ \/ HoldsContent(c.v.delta)
     \/ HoldsContent(c.v.message) /\ c.v.message.v.role.t # "absent"

\* The fields a response is required to hold, with their types.
ResponseHoldsFields(r) ==
  /\ r.t = "dict"
  /\ r.v.choices.t = "list"
  /\ Len(r.v.choices.v) > 0
  /\ r.v.id.t = "str"
  /\ r.v.created.t = "int"
  /\ \A i \in 1..Len(r.v.choices.v) : ChoiceHoldsFields(r.v.choices.v[i])

HoldsFields(a) ==
  IF a.t = "list"
  THEN Len(a.v) > 0 /\ \A i \in 1..Len(a.v) : ResponseHoldsFields(a.v[i])
  ELSE ResponseHoldsFields(a)

\* C16: each of the five parsers returns None, and does not raise, when a
\* required field of its argument is missing or mis-typed.
C16_InvalidPayloadGivesNone ==
  api.fn \in ParseFns /\ ~HoldsFields(api.arg) => api.res.st = "None"

ValidChunk(r) == ResponseHoldsFields(r) /\ HoldsContent(r.v.choices.v[1].v.delta)

RECURSIVE DeltasFrom(_, _)
DeltasFrom(l, i) ==
  IF i > Len(l) THEN << >>
  ELSE l[i].v.choices.v[1].v.delta.v.content.v \o DeltasFrom(l, i + 1)

ValidChunks(a) == a.t = "list" /\ Len(a.v) > 0 /\ \A i \in 1..Len(a.v) : ValidChunk(a.v[i])

\* C17: of a non-empty list of valid chunks PartialMessage.FromApiResponses
\* builds one fragment per chunk; every fragment's first is the fragment
\* returned, the prev of each later fragment is the fragment made just
\* before it, and toMessage() of every fragment holds the deltas
\* concatenated in arrival order.
C17_ChainHasOneHeadAndConcatenates ==
  api.fn = "PartialMessage.FromApiResponses" /\ ValidChunks(api.arg) =>
    /\ api.res.st = "ok"
    /\ api.res.val = 1
    /\ Len(chain) = Len(api.arg.v)
    /\ \A k \in 1..Len(chain) :
         /\ chain[k].first = api.res.val
         /\ chain[k].prev = (IF k = 1 THEN None ELSE k - 1)
         /\ ToMessage(chain, k).content = DeltasFrom(api.arg.v, 1)

\* C17 witness: the chunks "Hel", "lo", ", world" were parsed and
\* toMessage() of the last fragment is "Hello, world".
C17_Witness ==
  /\ api.fn = "PartialMessage.FromApiResponses"
  /\ ValidChunks(api.arg)
  /\ Len(chain) = 3
  /\ chain[1].content = <<"H", "e", "l">>
  /\ chain[2].content = <<"l", "o">>
  /\ ToMessage(chain, 3).content =
       <<"H", "e", "l", "l", "o", ",", " ", "w", "o", "r", "l", "d">>

ValidUsage(u) ==
  \/ u.t = "absent"
  \/ /\ u.t = "dict"
     /\ u.v.prompt_tokens.t = "int" /\ u.v.completion_tokens.t = "int" /\ u.v.total_tokens.t = "int"

UsageNonZero(u) ==
  /\ u.t = "dict"
  /\ u.v.prompt_tokens.v # 0 \/ u.v.completion_tokens.v # 0 \/ u.v.total_tokens.v # 0

\* A response as the API sends it: the required fields with their types,
\* each choice holding either a message or a delta.
ValidResponse(r) ==
  /\ ResponseHoldsFields(r)
  /\ r.v.model.t = "str" /\ r.v.object.t = "str"
  /\ ValidUsage(r.v.usage)
  /\ \A i \in 1..Len(r.v.choices.v) :
       LET c == r.v.choices.v[i].v IN
       \/ c.delta.t = "absent" /\ c.message.v.role.t = "str"
       \/ c.message.t = "absent"

FirstChoiceContent(r) ==
  LET c == r.v.choices.v[1].v IN
  IF c.delta.t = "absent" THEN c.message.v.content ELSE c.delta.v.content

\* C18: Response.FromApiResponse(r) of a valid response r returns a Response
\* whose toApiResponse() holds the id, created, model and first choice
\* content of r, and holds usage exactly when r's usage is non-zero.
C18_RoundTripPreserves ==
  /\ api.fn = "Response.FromApiResponse" /\ ValidResponse(api.arg) => api.res.st = "ok"
  /\ api.fn = "Response.toApiResponse" /\ ValidResponse(api.arg) =>
       LET out == api.res.val.v
           r   == api.arg.v
       IN
       /\ out.id = r.id
       /\ out.created = r.created
       /\ out.model = r.model
       /\ out.choices.v[1].v.content = FirstChoiceContent(api.arg)
       /\ (out.usage.t # "absent") <=> UsageNonZero(r.usage)

\* C18 witness: a valid response with a non-zero usage was parsed and
\* written back, and what was written holds the usage and the content.
C18_Witness ==
  /\ api.fn = "Response.toApiResponse"
  /\ ValidResponse(api.arg)
  /\ UsageNonZero(api.arg.v.usage)
  /\ api.res.val.v.usage = api.arg.v.usage
  /\ api.res.val.v.choices.v[1].v.content = JStr(<<"h", "e", "l", "l", "o">>)

\* C30: for a Response parsed by Response.FromApiResponse from a payload,
\* parsing what toApiResponse writes of it succeeds and gives a Response of
\* the same id, created and model and the same role and content in its
\* first choice.  (A dict payload is parsed by FromApiResponse only, so the
\* Response serialized is ResponseFromApiResponse of the payload.)
C30_SerializedFormParsesBack ==
  [][/\ api.fn = "Response.toApiResponse" /\ api.arg.t = "dict"
     /\ api'.fn = "Response.FromApiResponse(toApiResponse)"
     => LET resp  == ResponseFromApiResponse(api.arg).val
            again == api'.res
        IN
        /\ again.st = "ok"
        /\ again.val.id = resp.id
        /\ again.val.created = resp.created
        /\ again.val.model = resp.model
        /\ Len(again.val.choices) = Len(resp.choices)
        /\ Len(resp.choices) > 0 =>
             /\ again.val.choices[1].role = resp.choices[1].role
             /\ again.val.choices[1].content = resp.choices[1].content]_vars

----------------------------------------------------------------------------
(* Properties of ChatCompletionParams.                                     *)

Within(x, lo, hi) == x.t = "None" \/ (x.v >= lo /\ x.v <= hi)

\* C19: no ChatCompletionParams object holds an out-of-range sampling
\* value, whatever was given to the constructor and assigned since:
\* temperature in [0,2], top_p in [0,1], n in [1,10], both penalties in
\* [-2,2], at most 4 stop strings, user at most 256 characters.
C19_NoOutOfRangeValueHeld ==
  params.made =>
    LET o == params.obj IN
    /\ Within(o.temperature, 0, 2)
    /\ Within(o.top_p, 0, 1)
    /\ Within(o.n, 1, 10)
    /\ Within(o.frequency_penalty, -2, 2)
    /\ Within(o.presence_penalty, -2, 2)
    /\ o.stop.t = "None" \/ Len(o.stop.v) <= 4
    /\ o.user.t = "None" \/ Len(o.user.v) <= 256

OptionalFields ==
  {"temperature", "max_tokens", "top_p", "n", "frequency_penalty", "presence_penalty",
   "stop", "logit_bias", "user"}

\* C20: what toDict() returns holds an optional field exactly when the
\* field's hasX() is true, and its logit_bias maps every token of every
\* TokenSet to a bias of a set that holds it.
C20_ToDictHoldsExactlyTheSetFields ==
  params.dict.t # "absent" =>
    /\ \A f \in OptionalFields : (params.dict.v[f].t # "absent") <=> HasX(params.obj, f)
    /\ HasX(params.obj, "logit_bias") =>
         LET sets == params.obj.logit_bias.v
             lbd  == params.dict.v.logit_bias
         IN
         /\ lbd.t = "dict"
         /\ DOMAIN lbd.v =
              UNION {{sets[i].tokens[k] : k \in 1..Len(sets[i].tokens)} : i \in 1..Len(sets)}
         /\ \A t \in DOMAIN lbd.v :
              \E i \in 1..Len(sets) :
                /\ \E k \in 1..Len(sets[i].tokens) : sets[i].tokens[k] = t
                /\ lbd.v[t] = sets[i].bias

----------------------------------------------------------------------------
(* Properties of the submission pipeline.                                  *)

\* C3: at most one submission is in flight at a time: while a completion
\* call is outstanding, a second submit does not start another call.
C3_SingleFlight == Cardinality(InFlight(gui)) <= 1

\* C4: after the user has stopped a submission, no response is attached for
\* it and no entry is added for it, whenever the stop falls relative to the
\* worker's completion.
C4_StoppedCallNeverAttached ==
  [][\A k \in Calls :
       gui.calls[k].stopped /\ gui'.calls[k].st = "unused" =>
         /\ chat'.response = chat.response
         /\ chat'.n = chat.n]_vars

\* C21: when the user stops a streamed submission that is still in flight,
\* no piece that its stream inserted stays in the response field and the
\* tree is as it was; and every chunk a stream reads is appended at the end
\* of the response field.
C21_CancelDiscardsPartialText ==
  [][/\ (_onStopButton /\ gui.thread \in InFlight(gui) =>
           /\ \A i \in 1..Len(gui'.responseField) : gui'.responseField[i].call # gui.thread
           /\ chat' = chat)
     /\ (streamTask =>
           \E k \in InFlight(gui) :
             gui'.responseField =
               Append(gui.responseField,
                      [call |-> k, text |-> StreamChunks[gui.calls[k].got + 1]]))]_vars

\* C22: when the completion call of a submission raises, the window shows
\* a message that is not the one of the timeout, the loading indicator is
\* hidden, and the tree is left as it was.
C22_TransportErrorIsSurfaced ==
  [][\A k \in Calls :
       CallRaises(k) =>
         /\ dialog' \notin {"", "Request Timed Out"}
         /\ ~gui'.loading
         /\ chat' = chat]_vars

C25_ResultAttachedToSentEntry ==
  [][\A k \in Calls :
       /\ afterTask
       /\ gui.calls[k].st = "emitted" /\ gui.calls[k].got > 0
       /\ gui'.calls[k].st = "unused"
       => LET e == gui.calls[k].entry IN
          /\ e \in 1..chat.n
          /\ chat'.response[e] = ParsedResponse
          /\ \A x \in 1..chat.n : x # e => chat'.response[x] = chat.response[x]]_vars

\* C26: when handling a result adds the new empty entry that becomes
\* current, that entry is a child of the entry that received the response.
C26_NewCurrentUnderAnsweredEntry ==
  [][\A k \in Calls :
       /\ afterTask
       /\ gui.calls[k].st = "emitted" /\ gui.calls[k].got > 0
       /\ gui'.calls[k].st = "unused"
       /\ chat'.n = chat.n + 1
       => /\ chat'.current = chat'.n
          /\ chat'.response[chat.current] = ParsedResponse
          /\ chat'.parent[chat'.current] = chat.current]_vars

\* C27: when the result of a call cannot be parsed (its stream produced no
\* content chunk), handling it raises nothing, attaches no response, adds no
\* entry and takes the loading indicator away.
C27_UnparseableResultIsIgnored ==
  [][\A k \in Calls :
       /\ afterTask
       /\ gui.calls[k].st = "emitted" /\ gui.calls[k].got = 0
       /\ gui'.calls[k].st = "unused"
       => /\ chat'.err = ""
          /\ chat'.response = chat.response
          /\ chat'.n = chat.n
          /\ ~gui'.loading]_vars

====
